---- MODULE Spec2Model ----
(***************************************************************************)
(* Model of rss2bsky.py: the login/backoff loop, the LastPostMarker scan,  *)
(* the per-entry pipeline of main(), and the pure text functions           *)
(* process_title and make_rich.                                            *)
(*                                                                         *)
(* Text is a sequence of Unicode code points (38 is "&", 60 is "<",        *)
(* 62 is ">", 35 is "#", 59 is ";", 32 is " ", 10 is "\n", 47 is "/",      *)
(* 58 is ":", 97 "a", 104 "h", 108 "l", 109 "m", 112 "p", 115 "s",         *)
(* 116 "t", 195 is U+00C3, 169 is U+00A9).                                 *)
(***************************************************************************)
EXTENDS Integers, Sequences, FiniteSets, TLC

VARIABLES pc, authenticated, backoff, failures, slept,
          timeline, last_bsky, qualifying,
          feed, idx, title_text, post_text, rich_text,
          link_metadata, images, embed, events, firstFailure,
          title_again

vars == <<pc, authenticated, backoff, failures, slept,
          timeline, last_bsky, qualifying,
          feed, idx, title_text, post_text, rich_text,
          link_metadata, images, embed, events, firstFailure,
          title_again>>

(***************************************************************************)
(* Bounds of the model.                                                    *)
(***************************************************************************)
MaxLoginFailures == 11
MaxHistory == 2
MaxTime == 2
MaxEntries == 2
MaxTitleFrags == 3
MaxContentFrags == 4

(***************************************************************************)
(* Program constants.                                                      *)
(***************************************************************************)
BackoffStart == 60
BackoffStep == 60
BackoffCap == 600
Epoch == 0

None == <<-1>>

Min(a, b) == IF a <= b THEN a ELSE b

Drop(s, n) == SubSeq(s, n + 1, Len(s))

StartsWith(s, p) == Len(s) >= Len(p) /\ SubSeq(s, 1, Len(p)) = p

RECURSIVE Flatten(_)
Flatten(ss) == IF ss = <<>> THEN <<>> ELSE Head(ss) \o Flatten(Tail(ss))

SeqsUpTo(S, n) == UNION {[1..k -> S] : k \in 0..n}

(***************************************************************************)
(* str.strip(): removes leading and trailing whitespace code points.       *)
(***************************************************************************)
IsSpace(c) == c \in ({9, 10, 11, 12, 13, 28, 29, 30, 31, 32, 133, 160, 5760}
                     \cup (8192..8202) \cup {8232, 8233, 8239, 8287, 12288})

RECURSIVE LStrip(_)
LStrip(s) == IF s # <<>> /\ IsSpace(Head(s)) THEN LStrip(Tail(s)) ELSE s

RECURSIVE RStrip(_)
RStrip(s) ==
    IF s # <<>> /\ IsSpace(s[Len(s)]) THEN RStrip(SubSeq(s, 1, Len(s) - 1)) ELSE s

\* Faulty variant of Strip: removes at most one whitespace character per side.
StripOne(s) ==
    LET l == IF s # <<>> /\ IsSpace(Head(s)) THEN Tail(s) ELSE s
    IN  IF l # <<>> /\ IsSpace(l[Len(l)]) THEN SubSeq(l, 1, Len(l) - 1) ELSE l

Strip(s) == RStrip(LStrip(s))

(***************************************************************************)
(* is_html: re.search(r'<.*?>', text); "." does not match a newline.       *)
(***************************************************************************)
is_html(text) ==
    \E i \in 1..Len(text) : \E j \in (i + 1)..Len(text) :
        /\ text[i] = 60
        /\ text[j] = 62
        /\ \A k \in (i + 1)..(j - 1) : text[k] # 10

(***************************************************************************)
(* html.entities.html5 restricted to the names that can be spelled with    *)
(* the letters a, h, l, m, p, t of the model's alphabet.                   *)
(***************************************************************************)
html5 ==
    (<<97, 108, 112, 104, 97, 59>> :> <<945>>) @@          \* alpha;
    (<<97, 109, 112>> :> <<38>>) @@                        \* amp
    (<<97, 109, 112, 59>> :> <<38>>) @@                    \* amp;
    (<<97, 112, 59>> :> <<8776>>) @@                       \* ap;
    (<<108, 97, 112, 59>> :> <<10885>>) @@                 \* lap;
    (<<108, 97, 116, 59>> :> <<10923>>) @@                 \* lat;
    (<<108, 108, 59>> :> <<8810>>) @@                      \* ll;
    (<<108, 116>> :> <<60>>) @@                            \* lt
    (<<108, 116, 59>> :> <<60>>) @@                        \* lt;
    (<<109, 97, 108, 116, 59>> :> <<10016>>) @@            \* malt;
    (<<109, 97, 112, 59>> :> <<8614>>) @@                  \* map;
    (<<109, 112, 59>> :> <<8723>>) @@                      \* mp;
    (<<112, 104, 109, 109, 97, 116, 59>> :> <<8499>>) @@   \* phmmat;
    (<<112, 109, 59>> :> <<177>>)                          \* pm;

(***************************************************************************)
(* html.unescape: re.sub over                                              *)
(*   &(#[0-9]+;?|#[xX][0-9a-fA-F]+;?|[^\t\n\f <&#;]{1,32};?)               *)
(* The model's alphabet has no digit and no "x", so only the named         *)
(* alternative can match.                                                  *)
(***************************************************************************)
IsNameChar(c) == c \notin {9, 10, 12, 32, 60, 38, 35, 59}

RECURSIVE NameRun(_)
NameRun(s) == IF s # <<>> /\ IsNameChar(Head(s)) THEN 1 + NameRun(Tail(s)) ELSE 0

RECURSIVE PrefixRef(_, _)
PrefixRef(s, x) ==
    IF x <= 1 THEN <<38>> \o s
    ELSE IF SubSeq(s, 1, x) \in DOMAIN html5
         THEN html5[SubSeq(s, 1, x)] \o Drop(s, x)
         ELSE PrefixRef(s, x - 1)

replace_charref(s) ==
    IF s \in DOMAIN html5 THEN html5[s] ELSE PrefixRef(s, Len(s) - 1)

RECURSIVE unescape(_)
unescape(s) ==
    IF s = <<>> THEN <<>>
    ELSE IF Head(s) # 38 THEN <<Head(s)>> \o unescape(Tail(s))
    ELSE LET rest == Tail(s)
             n == Min(NameRun(rest), 32)
             m == IF n < Len(rest) /\ rest[n + 1] = 59 THEN n + 1 ELSE n
         IN  IF n = 0 THEN <<38>> \o unescape(rest)
             ELSE replace_charref(SubSeq(rest, 1, m)) \o unescape(Drop(rest, m))

desescapar_unicode(text) == unescape(text)

(***************************************************************************)
(* fix_encoding: text.encode("latin-1").decode("utf-8"); the text is       *)
(* returned unchanged when either step raises.                             *)
(***************************************************************************)
IsCont(b) == b \in 128..191

Utf8Len(b) ==
    IF b[1] < 128 THEN 1
    ELSE IF b[1] \in 194..223 /\ Len(b) >= 2 /\ IsCont(b[2]) THEN 2
    ELSE IF /\ b[1] \in 224..239 /\ Len(b) >= 3 /\ IsCont(b[2]) /\ IsCont(b[3])
            /\ (b[1] = 224 => b[2] >= 160) /\ (b[1] = 237 => b[2] <= 159) THEN 3
    ELSE IF /\ b[1] \in 240..244 /\ Len(b) >= 4
            /\ IsCont(b[2]) /\ IsCont(b[3]) /\ IsCont(b[4])
            /\ (b[1] = 240 => b[2] >= 144) /\ (b[1] = 244 => b[2] <= 143) THEN 4
    ELSE 0

Utf8Point(b, n) ==
    IF n = 1 THEN b[1]
    ELSE IF n = 2 THEN (b[1] - 192) * 64 + (b[2] - 128)
    ELSE IF n = 3 THEN (b[1] - 224) * 4096 + (b[2] - 128) * 64 + (b[3] - 128)
    ELSE (b[1] - 240) * 262144 + (b[2] - 128) * 4096 + (b[3] - 128) * 64 + (b[4] - 128)

RECURSIVE Utf8Valid(_)
Utf8Valid(b) ==
    b = <<>> \/ (Utf8Len(b) > 0 /\ Utf8Valid(Drop(b, Utf8Len(b))))

RECURSIVE Utf8Decode(_)
Utf8Decode(b) ==
    IF b = <<>> THEN <<>>
    ELSE <<Utf8Point(b, Utf8Len(b))>> \o Utf8Decode(Drop(b, Utf8Len(b)))

fix_encoding(text) ==
    IF \E i \in 1..Len(text) : text[i] > 255 THEN text
    ELSE IF Utf8Valid(text) THEN Utf8Decode(text)
    ELSE text

(***************************************************************************)
(* BeautifulSoup(title, "html.parser").get_text(): tags are dropped, and   *)
(* entity references in the text are replaced (an unknown one loses its    *)
(* semicolon).  Follows html.parser's goahead()/close().                   *)
(***************************************************************************)
IsAlnum(c) == c \in (48..57) \cup (65..90) \cup (97..122)

IsLetter(c) == c \in (65..90) \cup (97..122)

RECURSIVE AlnumRun(_)
AlnumRun(s) == IF s # <<>> /\ IsAlnum(Head(s)) THEN 1 + AlnumRun(Tail(s)) ELSE 0

IndexOf(s, c) ==
    IF \E i \in 1..Len(s) : s[i] = c
    THEN CHOOSE i \in 1..Len(s) : s[i] = c /\ \A j \in 1..(i - 1) : s[j] # c
    ELSE 0

RECURSIVE get_text(_)
get_text(s) ==
    IF s = <<>> THEN <<>>
    ELSE IF Head(s) = 60 THEN
        IF Len(s) >= 2 /\ (IsLetter(s[2]) \/ s[2] = 47)
        THEN LET gt == IndexOf(Tail(s), 62)
                 lt == IndexOf(Tail(s), 60)
             IN  IF gt > 0 THEN get_text(Drop(s, gt + 1))
                 ELSE IF lt > 0 THEN SubSeq(s, 1, lt) \o get_text(Drop(s, lt))
                 ELSE <<60>> \o get_text(Tail(s))
        ELSE <<60>> \o get_text(Tail(s))
    ELSE IF Head(s) = 38 THEN
        LET rest == Tail(s)
            n == IF rest # <<>> /\ IsLetter(Head(rest)) THEN AlnumRun(rest) ELSE 0
            name == SubSeq(rest, 1, n)
        IN  IF n > 0 /\ n < Len(rest)
            THEN (IF (name \o <<59>>) \in DOMAIN html5
                  THEN html5[name \o <<59>>] ELSE <<38>> \o name)
                 \o get_text(Drop(rest, IF rest[n + 1] = 59 THEN n + 1 ELSE n))
            ELSE <<38>> \o get_text(rest)
    ELSE <<Head(s)>> \o get_text(Tail(s))

process_title(title) ==
    LET title_1 == IF is_html(title) THEN Strip(get_text(title)) ELSE Strip(title)
    IN  fix_encoding(desescapar_unicode(title_1))

(***************************************************************************)
(* make_rich: one TextBuilder run per link line, or per segment of         *)
(* re.split("(#[a-zA-Z0-9]+)", line).  A run records the builder call      *)
(* (kind), its display text, its uri or tag, and the line it came from.    *)
(***************************************************************************)
Run(kind, text, value, line) ==
    [kind |-> kind, text |-> text, value |-> value, line |-> line]

RECURSIVE SplitLines(_)
SplitLines(s) ==
    LET k == IndexOf(s, 10)
    IN  IF k = 0 THEN <<s>> ELSE <<SubSeq(s, 1, k - 1)>> \o SplitLines(Drop(s, k))

TagStart(line) ==
    IF \E i \in 1..(Len(line) - 1) : line[i] = 35 /\ IsAlnum(line[i + 1])
    THEN CHOOSE i \in 1..(Len(line) - 1) :
             /\ line[i] = 35 /\ IsAlnum(line[i + 1])
             /\ \A j \in 1..(i - 1) : ~(line[j] = 35 /\ IsAlnum(line[j + 1]))
    ELSE 0

RECURSIVE tag_split(_)
tag_split(line) ==
    LET i == TagStart(line)
        n == AlnumRun(Drop(line, i))
    IN  IF i = 0 THEN <<line>>
        ELSE <<SubSeq(line, 1, i - 1), SubSeq(line, i, i + n)>>
             \o tag_split(Drop(line, i + n))

LineRuns(line, li) ==
    IF StartsWith(line, <<104, 116, 116, 112>>)
    THEN <<Run("link", Strip(line), Strip(line), li)>>
    ELSE LET ts == tag_split(line)
         IN  [i \in 1..Len(ts) |->
                 LET t == IF i = Len(ts) THEN ts[i] \o <<10>> ELSE ts[i]
                 IN  IF StartsWith(t, <<35>>)
                     THEN Run("tag", t, Strip(Drop(t, 1)), li)
                     ELSE Run("text", t, <<>>, li)]

make_rich(content) ==
    LET lines == SplitLines(content)
    IN  Flatten([i \in 1..Len(lines) |-> LineRuns(lines[i], i)])

(***************************************************************************)
(* get_last_bsky: the scan of the author feed.                             *)
(***************************************************************************)
TopLevel(titem) == titem.reason = "none" /\ titem.reply = "none"

RECURSIVE get_last_bsky(_)
get_last_bsky(tl) ==
    IF tl = <<>> THEN Epoch
    ELSE IF TopLevel(Head(tl)) THEN Head(tl).created_at
    ELSE get_last_bsky(Tail(tl))

(***************************************************************************)
(* The inputs the remote collaborators can deliver.                        *)
(***************************************************************************)
Times == Epoch..MaxTime

TimelineItems ==
    [reason : {"none", "repost"}, reply : {"none", "reply"}, created_at : Times]

Timelines == SeqsUpTo(TimelineItems, MaxHistory)

FeedLink == <<104, 116, 116, 112, 58, 47, 47, 97>>        \* http://a

FeedTitles == {<<97, 32, 35, 116>>}                        \* "a #t"

Entries == [published : Times, title : FeedTitles, link : {FeedLink}]

Feeds == SeqsUpTo(Entries, MaxEntries)

PageTitle == <<88>>                                        \* "X"

PageDescription == <<68>>                                  \* "D"

ImageUrl == <<104, 116, 116, 112, 58, 47, 47, 112>>        \* http://p

EmptyMetadata == [title |-> None, description |-> None, image |-> None]

MetadataResults ==
    {EmptyMetadata} \cup
    [title : {<<>>, PageTitle}, description : {<<>>, PageDescription},
     image : {None, ImageUrl}]

Truthy(v) == v # None /\ v # <<>>

Or(a, b) == IF Truthy(a) THEN a ELSE b

(***************************************************************************)
(* The embed of a post.                                                    *)
(***************************************************************************)
NoEmbed == [kind |-> "none", uri |-> <<>>, title |-> <<>>, description |-> <<>>]

ExternalEmbed(uri, title, description) ==
    [kind |-> "external", uri |-> uri, title |-> title, description |-> description]

ImagesEmbed(imgs) ==
    [kind |-> "images", uri |-> <<>>, title |-> imgs[1].alt, description |-> <<>>]

LinkTitle == <<76, 105, 110, 107>>                         \* "Link"

PreviewImage == <<80, 114, 101, 118, 105, 101, 119, 32, 105, 109, 97, 103, 101>>

external_embed(meta, link) ==
    IF Truthy(meta.title) \/ Truthy(meta.description)
    THEN ExternalEmbed(link, Or(meta.title, LinkTitle), Or(meta.description, <<>>))
    ELSE NoEmbed

\* Faulty variant of compose_embed: the link card wins over the image.
compose_embed_external_first(imgs, external) ==
    IF external # NoEmbed THEN external
    ELSE IF imgs # <<>> THEN ImagesEmbed(imgs)
    ELSE NoEmbed

compose_embed(imgs, external) ==
    IF imgs # <<>> THEN ImagesEmbed(imgs)
    ELSE IF external # NoEmbed THEN external
    ELSE NoEmbed

(***************************************************************************)
(* Small pieces of main().                                                 *)
(***************************************************************************)
\* Faulty variant of next_backoff: no cap.
next_backoff_uncapped(b) == b + BackoffStep

next_backoff(b) == Min(b + BackoffStep, BackoffCap)

\* Faulty variant of after_login_failure: moves on after three failures.
after_login_failure_give_up(n) == IF n >= 3 THEN "get_author_feed" ELSE "login"

after_login_failure(n) == "login"

\* Faulty variant of newer: non-strict comparison.
newer_or_equal(rss_time, last) == rss_time >= last

newer(rss_time, last) == rss_time > last

\* Faulty variant of entry_order: iterates the feed from its last entry.
entry_order_reversed(f) == [k \in 1..Len(f) |-> Len(f) + 1 - k]

entry_order(f) == [k \in 1..Len(f) |-> k]

\* Faulty variant of send_failed: the exception escapes the loop.
send_failed_uncaught(next_pc) == "aborted"

send_failed(next_pc) == next_pc

Position == entry_order(feed)[idx]

Item == feed[Position]

NextPc == IF idx < Len(feed) THEN "entry" ELSE "done"

NoteFailure(failed) ==
    firstFailure' = IF failed /\ firstFailure = 0 THEN Position ELSE firstFailure

(***************************************************************************)
(* Init: the state of main() after argument parsing and Client().          *)
(***************************************************************************)
Locals ==
    /\ title_text = <<>> /\ rich_text = <<>>
    /\ link_metadata = EmptyMetadata /\ images = <<>> /\ embed = NoEmbed
    /\ events = <<>> /\ firstFailure = 0 /\ title_again = <<>>
    /\ timeline = <<>> /\ last_bsky = Epoch /\ qualifying = FALSE
    /\ authenticated = FALSE /\ backoff = BackoffStart /\ failures = 0 /\ slept = 0

Init ==
    /\ pc = "login"
    /\ feed = <<>> /\ idx = 0 /\ post_text = <<>>
    /\ Locals

(***************************************************************************)
(* Login loop, lines 129-138.                                              *)
(***************************************************************************)
LoginOk ==
    /\ pc = "login"
    /\ authenticated' = TRUE
    /\ pc' = "get_author_feed"
    /\ UNCHANGED <<backoff, failures, slept, timeline, last_bsky, qualifying,
                   feed, idx, title_text, post_text, rich_text, link_metadata,
                   images, embed, events, firstFailure, title_again>>

LoginFails ==
    /\ pc = "login"
    /\ failures < MaxLoginFailures
    /\ failures' = failures + 1
    /\ slept' = backoff
    /\ backoff' = next_backoff(backoff)
    /\ pc' = after_login_failure(failures + 1)
    /\ UNCHANGED <<authenticated, timeline, last_bsky, qualifying,
                   feed, idx, title_text, post_text, rich_text, link_metadata,
                   images, embed, events, firstFailure, title_again>>

(***************************************************************************)
(* get_last_bsky, lines 70-77 and 141.                                     *)
(***************************************************************************)
GetAuthorFeed ==
    /\ pc = "get_author_feed"
    /\ \E tl \in Timelines : timeline' = tl
    /\ pc' = "scan_timeline"
    /\ UNCHANGED <<authenticated, backoff, failures, slept, last_bsky, qualifying,
                   feed, idx, title_text, post_text, rich_text, link_metadata,
                   images, embed, events, firstFailure, title_again>>

GetAuthorFeedRaises ==
    /\ pc = "get_author_feed"
    /\ pc' = "aborted"
    /\ UNCHANGED <<authenticated, backoff, failures, slept, timeline, last_bsky,
                   qualifying, feed, idx, title_text, post_text, rich_text,
                   link_metadata, images, embed, events, firstFailure, title_again>>

ScanTimeline ==
    /\ pc = "scan_timeline"
    /\ last_bsky' = get_last_bsky(timeline)
    /\ qualifying' = (\E i \in 1..Len(timeline) : TopLevel(timeline[i]))
    /\ timeline' = <<>>
    /\ pc' = "fetch_feed"
    /\ UNCHANGED <<authenticated, backoff, failures, slept,
                   feed, idx, title_text, post_text, rich_text, link_metadata,
                   images, embed, events, firstFailure, title_again>>

(***************************************************************************)
(* Feed fetch, decoding and parse, lines 144-161.                          *)
(***************************************************************************)
FetchFeed ==
    /\ pc = "fetch_feed"
    /\ \E f \in Feeds :
        /\ feed' = f
        /\ idx' = 1
        /\ pc' = IF f = <<>> THEN "done" ELSE "entry"
    /\ UNCHANGED <<authenticated, backoff, failures, slept, timeline, last_bsky,
                   qualifying, title_text, post_text, rich_text, link_metadata,
                   images, embed, events, firstFailure, title_again>>

FetchFeedRaises ==
    /\ pc = "fetch_feed"
    /\ pc' = "aborted"
    /\ UNCHANGED <<authenticated, backoff, failures, slept, timeline, last_bsky,
                   qualifying, feed, idx, title_text, post_text, rich_text,
                   link_metadata, images, embed, events, firstFailure, title_again>>

(***************************************************************************)
(* Loop body up to the gate, lines 163-176 and 216-217.                    *)
(***************************************************************************)
Entry ==
    /\ pc = "entry"
    /\ LET tt == process_title(Item.title)
           pt == tt \o <<10>> \o Item.link
       IN  /\ title_text' = tt
           /\ post_text' = pt
           /\ rich_text' = make_rich(pt)
    /\ events' = Append(events, <<"gate", Position>>)
    /\ IF newer(Item.published, last_bsky)
       THEN pc' = "fetch_link_metadata" /\ idx' = idx
       ELSE pc' = NextPc /\ idx' = idx + 1
    /\ UNCHANGED <<authenticated, backoff, failures, slept, timeline, last_bsky,
                   qualifying, feed, link_metadata, images, embed, firstFailure,
                   title_again>>

(***************************************************************************)
(* fetch_link_metadata, lines 53-68 and 177-178.                           *)
(***************************************************************************)
FetchLinkMetadata ==
    /\ pc = "fetch_link_metadata"
    /\ \E r \in MetadataResults :
        /\ link_metadata' = r
        /\ NoteFailure(r = EmptyMetadata)
        /\ pc' = IF Truthy(r.image) THEN "get_image" ELSE "send_post"
    /\ images' = <<>>
    /\ events' = Append(events, <<"metadata", Position>>)
    /\ UNCHANGED <<authenticated, backoff, failures, slept, timeline, last_bsky,
                   qualifying, feed, idx, title_text, post_text, rich_text,
                   embed, title_again>>

(***************************************************************************)
(* get_image_from_url, lines 98-110 and 181-186.                           *)
(***************************************************************************)
GetImage ==
    /\ pc = "get_image"
    /\ \E ok \in BOOLEAN :
        /\ images' = IF ok
                     THEN <<[alt |-> Or(title_text, Or(link_metadata.title, PreviewImage)),
                             image |-> link_metadata.image]>>
                     ELSE <<>>
        /\ NoteFailure(~ok)
    /\ events' = Append(events, <<"image", Position>>)
    /\ pc' = "send_post"
    /\ UNCHANGED <<authenticated, backoff, failures, slept, timeline, last_bsky,
                   qualifying, feed, idx, title_text, post_text, rich_text,
                   link_metadata, embed, title_again>>

(***************************************************************************)
(* Embed composition and send_post, lines 190-215.                         *)
(***************************************************************************)
SendPost ==
    /\ pc = "send_post"
    /\ embed' = compose_embed(images, external_embed(link_metadata, Item.link))
    /\ events' = Append(events, <<"send", Position>>)
    /\ \E ok \in BOOLEAN :
        /\ NoteFailure(~ok)
        /\ pc' = IF ok THEN NextPc ELSE send_failed(NextPc)
    /\ idx' = idx + 1
    /\ UNCHANGED <<authenticated, backoff, failures, slept, timeline, last_bsky,
                   qualifying, feed, title_text, post_text, rich_text,
                   link_metadata, images, title_again>>

Next ==
    \/ LoginOk
    \/ LoginFails
    \/ GetAuthorFeed
    \/ GetAuthorFeedRaises
    \/ ScanTimeline
    \/ FetchFeed
    \/ FetchFeedRaises
    \/ Entry
    \/ FetchLinkMetadata
    \/ GetImage
    \/ SendPost

Spec == Init /\ [][Next]_vars

(***************************************************************************)
(* The text functions on their own: process_title applied to a title and   *)
(* then to its own result, and make_rich applied to a post body.           *)
(***************************************************************************)
TitleFrags ==
    { <<38>>,                      \* &
      <<97, 109, 112, 59>>,        \* amp;
      <<108, 116, 59>>,            \* lt;
      <<97>>,                      \* a
      <<32>>,                      \* space
      <<60>>,                      \* <
      <<62>>,                      \* >
      <<195>>,                     \* U+00C3
      <<169>> }                    \* U+00A9

TitleInputs == {Flatten(fs) : fs \in SeqsUpTo(TitleFrags, MaxTitleFrags)}

ContentFrags ==
    { <<104, 116, 116, 112>>,      \* http
      <<115>>,                     \* s
      <<58, 47, 47>>,              \* ://
      <<97>>,                      \* a
      <<32>>,                      \* space
      <<35>>,                      \* #
      <<10>> }                     \* newline

ContentInputs == {Flatten(fs) : fs \in SeqsUpTo(ContentFrags, MaxContentFrags)}

InitText ==
    /\ Locals
    /\ \/ /\ pc = "title"
          /\ \E s \in TitleInputs :
                feed = <<[published |-> Epoch, title |-> s, link |-> FeedLink]>>
          /\ idx = 1
          /\ post_text = <<>>
       \/ /\ pc = "content"
          /\ feed = <<>> /\ idx = 0
          /\ post_text \in ContentInputs

ProcessTitle ==
    /\ pc = "title"
    /\ title_text' = process_title(Item.title)
    /\ pc' = "title_once"
    /\ UNCHANGED <<authenticated, backoff, failures, slept, timeline, last_bsky,
                   qualifying, feed, idx, post_text, rich_text, link_metadata,
                   images, embed, events, firstFailure, title_again>>

ProcessTitleAgain ==
    /\ pc = "title_once"
    /\ title_again' = process_title(title_text)
    /\ pc' = "title_twice"
    /\ UNCHANGED <<authenticated, backoff, failures, slept, timeline, last_bsky,
                   qualifying, feed, idx, title_text, post_text, rich_text,
                   link_metadata, images, embed, events, firstFailure>>

MakeRich ==
    /\ pc = "content"
    /\ rich_text' = make_rich(post_text)
    /\ pc' = "rich"
    /\ UNCHANGED <<authenticated, backoff, failures, slept, timeline, last_bsky,
                   qualifying, feed, idx, title_text, post_text, link_metadata,
                   images, embed, events, firstFailure, title_again>>

NextText ==
    \/ ProcessTitle
    \/ ProcessTitleAgain
    \/ MakeRich

SpecText == InitText /\ [][NextText]_vars

(***************************************************************************)
(* Vocabulary of the properties.                                           *)
(***************************************************************************)
EventsOf(kind) == {events[k][2] : k \in {j \in DOMAIN events : events[j][1] = kind}}

Submitted == EventsOf("send")

Gated == EventsOf("gate")

Finished(i) == pc = "done" \/ (pc \in {"entry", "fetch_link_metadata", "get_image", "send_post"} /\ i < idx)

LastEvent == events[Len(events)]

Rank(kind) ==
    CASE kind = "gate" -> 1
      [] kind = "metadata" -> 2
      [] kind = "image" -> 3
      [] kind = "send" -> 4

IsAscii(s) == \A i \in 1..Len(s) : s[i] < 128

HasScheme(s) ==
    \/ StartsWith(s, <<104, 116, 116, 112, 58, 47, 47>>)
    \/ StartsWith(s, <<104, 116, 116, 112, 115, 58, 47, 47>>)

RunsOfLine(i) == SelectSeq(rich_text, LAMBDA r : r.line = i)

Segment(r) ==
    IF r.text # <<>> /\ r.text[Len(r.text)] = 10
    THEN SubSeq(r.text, 1, Len(r.text) - 1) ELSE r.text

IsHashtag(seg) ==
    /\ Len(seg) >= 2
    /\ seg[1] = 35
    /\ \A k \in 2..Len(seg) : IsAlnum(seg[k])

FirstTopLevelTime(tl) ==
    IF \E i \in 1..Len(tl) : tl[i].reason = "none" /\ tl[i].reply = "none"
    THEN tl[CHOOSE i \in 1..Len(tl) :
                /\ tl[i].reason = "none" /\ tl[i].reply = "none"
                /\ \A j \in 1..(i - 1) : ~(tl[j].reason = "none" /\ tl[j].reply = "none")
           ].created_at
    ELSE 0

C2_MarkerStep ==
    [][pc = "scan_timeline" /\ pc' = "fetch_feed"
          => last_bsky' = FirstTopLevelTime(timeline)]_vars

C2_LastPostMarker ==
    /\ C2_MarkerStep
    /\ [](pc = "done" /\ ~qualifying => \A i \in 1..Len(feed) : i \in Submitted)

(***************************************************************************)
(* C3. Embed selection: the embed handed to send_post is Image when an     *)
(* image URL was present and its fetch and upload succeeded; otherwise     *)
(* ExternalLink when the metadata has a non-empty title or description,    *)
(* with title defaulting to "Link" and description to empty; otherwise     *)
(* no embed.                                                               *)
(***************************************************************************)
C3_EmbedSelection ==
    (events # <<>> /\ LastEvent[1] = "send") =>
        IF Truthy(link_metadata.image) /\ images # <<>>
        THEN embed.kind = "images"
        ELSE IF Truthy(link_metadata.title) \/ Truthy(link_metadata.description)
        THEN embed = [kind |-> "external",
                      uri |-> feed[LastEvent[2]].link,
                      title |-> IF Truthy(link_metadata.title)
                                THEN link_metadata.title ELSE <<76, 105, 110, 107>>,
                      description |-> IF Truthy(link_metadata.description)
                                      THEN link_metadata.description ELSE <<>>]
        ELSE embed.kind = "none"

C3_Witness ==
    /\ events # <<>> /\ LastEvent[1] = "send"
    /\ Truthy(link_metadata.image) /\ images = <<>>
    /\ ~Truthy(link_metadata.title)
    /\ embed.kind = "external" /\ embed.title = <<76, 105, 110, 107>>

C5_LoginRetry ==
    /\ [](pc # "login" => authenticated)
    /\ [][pc = "login" /\ ~authenticated' => pc' = "login"]_vars
    /\ [][~authenticated /\ authenticated' => pc' = "get_author_feed"]_vars

C5_Witness ==
    /\ failures >= 10
    /\ authenticated
    /\ pc = "scan_timeline"

(***************************************************************************)
(* C6. Ordering: gate decisions, metadata fetches, image fetches and       *)
(* submissions happen in feed order, each entry's steps completing before  *)
(* any step of a later entry.                                              *)
(***************************************************************************)
C6_Ordering ==
    \A a, b \in DOMAIN events :
        a < b =>
            \/ events[a][2] < events[b][2]
            \/ events[a][2] = events[b][2] /\ Rank(events[a][1]) < Rank(events[b][1])

C6_Witness ==
    /\ pc = "done"
    /\ Len(feed) >= 2
    /\ {1, 2} \subseteq Submitted

(***************************************************************************)
(* C7. process_title is idempotent on pure-ASCII, tag-free input.          *)
(* C7_Original is the statement for every such input; C7_Idempotent is    *)
(* the statement for the inputs that html.unescape leaves unchanged.       *)
(***************************************************************************)
C7_Original ==
    (pc = "title_twice" /\ IsAscii(Item.title) /\ ~is_html(Item.title))
        => title_again = title_text

C7_Idempotent ==
    (/\ pc = "title_twice"
     /\ IsAscii(Item.title) /\ ~is_html(Item.title)
     /\ unescape(Item.title) = Item.title)
        => title_again = title_text

C7_Witness ==
    /\ pc = "title_twice"
    /\ IsAscii(Item.title) /\ ~is_html(Item.title)
    /\ unescape(Item.title) = Item.title
    /\ \E i \in 1..Len(Item.title) : Item.title[i] = 38
    /\ title_text # Item.title
    /\ title_again = title_text

(***************************************************************************)
(* C8. make_rich link rule: a line is emitted as a single Link run whose   *)
(* text and target are the trimmed line if and only if the trimmed line    *)
(* starts with "http://" or "https://".                                    *)
(***************************************************************************)
C8_LinkRule ==
    pc = "rich" =>
        LET lines == SplitLines(post_text)
        IN  \A i \in 1..Len(lines) :
                (RunsOfLine(i) = <<Run("link", Strip(lines[i]), Strip(lines[i]), i)>>)
                    <=> HasScheme(Strip(lines[i]))

(***************************************************************************)
(* C9. make_rich hashtag rule: on a line that is not a link, a run is a    *)
(* Hashtag run if and only if its segment is "#" followed by one or more   *)
(* alphanumeric characters, and its tag is the text after "#".             *)
(***************************************************************************)
C9_HashtagRule ==
    pc = "rich" =>
        \A k \in 1..Len(rich_text) :
            rich_text[k].kind # "link" =>
                /\ rich_text[k].kind = "tag" <=> IsHashtag(Segment(rich_text[k]))
                /\ rich_text[k].kind = "tag"
                       => rich_text[k].value = Drop(Segment(rich_text[k]), 1)

(***************************************************************************)
(* C10. Login backoff: the delay slept after the k-th consecutive failure  *)
(* is min(60*k, 600); the backoff is a multiple of 60 between 60 and 600,  *)
(* never decreases, and stays at 600 once it is there.                     *)
(***************************************************************************)
C10_Backoff ==
    /\ [](/\ backoff \in {60 * k : k \in 1..10}
          /\ failures >= 1 => slept = (IF 60 * failures <= 600 THEN 60 * failures ELSE 600))
    /\ [][backoff' >= backoff /\ (backoff = 600 => backoff' = 600)]_vars

C10_Witness ==
    /\ failures >= 11
    /\ slept = 600
    /\ backoff = 600

====
